---- MODULE Spec2Model ----
(***************************************************************************)
(* The OAI-PMH harvester / GMN adapter of src/oaipmh/d1_adapter_pangaea.py *)
(* and the client manager of src/oaipmh/d1_client_manager.py.              *)
(*                                                                         *)
(* One run is one execution of main(): it reads the watermark, loops over  *)
(* ListRecords pages while a resumption token is present, hands every      *)
(* record of a page to process_record and writes one summary line.         *)
(*                                                                         *)
(* The adapter imports d1_client_manager_pangaea, whose calling convention *)
(* (a dict-shaped existence result, a record date argument, a truth value  *)
(* returned by the mutating calls, get_last_harvest_time) is the one of    *)
(* the adapter's call sites and of the Target Store API of the             *)
(* specification; what d1_client_manager.py shows of the manager (version  *)
(* pid generation, system metadata dates, which member-node calls sit      *)
(* inside a try block) is taken from that file.  The member node itself    *)
(* (GMN) is modelled as the Target Store of the specification.             *)
(***************************************************************************)
EXTENDS Integers, Sequences, FiniteSets, TLC

\* ------------------------------------------------------------------ bounds
\* number of runs (executions of main) explored
MaxRuns == 2
\* ListRecords requests one run may issue before the source must end the list
MaxFetch == 2
\* record entries the source serves over all runs
MaxRecords == 2
\* last value of the wall clock
MaxClock == 2
\* clock ticks in one minute (strftime "%H%M" truncates to the minute)
TicksPerMinute == 2
\* largest page size of the modelled repository
MaxPageSize == 2

\* ------------------------------------------------------------------ values
PREFIX == "oai:pangaea.de:"
\* wire identifiers are token sequences; the sentinel is oai:pangaea.de:deleted.dummy
SENTINEL_WIRE == <<PREFIX, "deleted.dummy">>
RealWireIds == {<<PREFIX, "x1">>, <<PREFIX, "x2">>}
\* the identifiers the entries of an arbitrary page carry
EntryWireIds == {<<PREFIX, "x1">>, SENTINEL_WIRE}

\* identifier.text.replace('oai:pangaea.de:', ''): every occurrence is removed
NotPrefix(tok) == tok # PREFIX
StripPrefix(wire) == SelectSeq(wire, NotPrefix)

SENTINEL_ID == StripPrefix(SENTINEL_WIRE)
NativeIds == {StripPrefix(w) : w \in RealWireIds}

Dates == {1, 2}
\* a datestamp text strptime('%Y-%m-%dT%H:%M:%SZ') rejects
BadDate == -1
Payloads == {"A", "B"}
Tokens == {"t1"}
NoToken == "None"
NoStatus == "absent"
NoPid == <<>>

\* an optional XML element: {} when find() returns None, {v} when it is there
Some(v) == {v}
None == {}
Get(opt) == CHOOSE v \in opt : TRUE

\* minidom.parseString(scimeta).toprettyxml(encoding='utf-8')
toprettyxml(scimeta) == <<"pretty", scimeta>>

\* ------------------------------------------------------------------ records
\* the record entries a page can carry
ActiveRecords(wires) ==
  [header : {TRUE}, status : {NoStatus}, identifier : {Some(w) : w \in wires},
   datestamp : {Some(d) : d \in Dates}, metadata : {Some(p) : p \in Payloads}]

DeletedRecords(wires, dates) ==
  [header : {TRUE}, status : {"deleted"}, identifier : {Some(w) : w \in wires},
   datestamp : {Some(d) : d \in dates}, metadata : {None}]

MalformedRecords ==
  { [header |-> FALSE, status |-> NoStatus, identifier |-> None,
     datestamp |-> None, metadata |-> None],
    [header |-> TRUE, status |-> "deleted", identifier |-> None,
     datestamp |-> Some(1), metadata |-> None],
    [header |-> TRUE, status |-> NoStatus, identifier |-> Some(<<PREFIX, "x1">>),
     datestamp |-> Some(BadDate), metadata |-> Some("A")],
    [header |-> TRUE, status |-> NoStatus, identifier |-> Some(<<PREFIX, "x1">>),
     datestamp |-> Some(1), metadata |-> None],
    [header |-> TRUE, status |-> "other", identifier |-> Some(<<PREFIX, "x1">>),
     datestamp |-> Some(1), metadata |-> Some("A")] }

Records ==
  ActiveRecords(EntryWireIds \ {SENTINEL_WIRE}) \cup DeletedRecords(EntryWireIds, {1})
  \cup MalformedRecords

IsSentinel(record) ==
  record.header /\ record.identifier = Some(SENTINEL_WIRE)

\* ------------------------------------------------------------------ Target Store
\* A StoredVersion of the member node: one immutable object per version pid.
\*   pid         version identifier            sid   series id (the native id)
\*   date        the record date of the version (lastModified of the ref)
\*   modified    dateSysMetadataModified       archived   retired by archive()
\*   obsoletes / obsoletedBy   the version chain written by update()
Version(pid, sid, date, content, t, obsoletes) ==
  [pid |-> pid, sid |-> sid, date |-> date, content |-> content, modified |-> t,
   obsoletes |-> obsoletes, obsoletedBy |-> NoPid, archived |-> FALSE]

Pids(st) == {v.pid : v \in st}
ByPid(st, pid) == {v \in st : v.pid = pid}

\* getSystemMetadata(sid): the head of the series' chain, None when NotFound
getSystemMetadata(st, sid) == {v \in st : v.sid = sid /\ v.obsoletedBy = NoPid}

\* MNStorage.create: refused when the pid is in use, or when the call fails
MNCreate(st, version, ok) ==
  IF ok /\ version.pid \notin Pids(st)
  THEN [ok |-> TRUE, store |-> st \cup {version}]
  ELSE [ok |-> FALSE, store |-> st]

\* MNStorage.update: the new version supersedes old_pid, which must be the
\* current, not archived version; refused when new_pid is in use
MNUpdate(st, old_pid, version, ok) ==
  LET old == {v \in st : v.pid = old_pid /\ v.obsoletedBy = NoPid /\ ~v.archived}
  IN IF ok /\ old # {} /\ version.pid \notin Pids(st)
     THEN [ok |-> TRUE,
           store |-> (st \ old)
                     \cup {[v EXCEPT !.obsoletedBy = version.pid] : v \in old}
                     \cup {[version EXCEPT !.obsoletes = old_pid]}]
     ELSE [ok |-> FALSE, store |-> st]

\* MNStorage.archive: marks the version retired and keeps its content; a second
\* archive of the same version changes nothing and is acknowledged
MNArchive(st, pid, ok) ==
  LET hit == ByPid(st, pid)
  IN IF ok /\ hit # {}
     THEN [ok |-> TRUE,
           store |-> (st \ hit) \cup {[v EXCEPT !.archived = TRUE] : v \in hit}]
     ELSE [ok |-> FALSE, store |-> st]

\* ------------------------------------------------------------------ client manager
\* native_identifier + now().strftime("_%Y%m%d_%H%M"): the clock cut to the minute
_generate_version_pid(native_identifier, t) ==
  <<native_identifier, t \div TicksPerMinute>>

\* the system metadata of a new version: dateUploaded and
\* dateSysMetadataModified are both now()
_generate_system_metadata(scimeta_bytes, native_identifier_sid, version_pid, t) ==
  [seriesId |-> native_identifier_sid, identifier |-> version_pid,
   content |-> scimeta_bytes, dateUploaded |-> t, dateSysMetadataModified |-> t]

\* create(nativeId, content, timestamp): the object the member node stores for
\* a system metadata document and the record date passed with it
StoredVersion(sys_meta, record_date) ==
  Version(sys_meta.identifier, sys_meta.seriesId, record_date, sys_meta.content,
          sys_meta.dateSysMetadataModified, NoPid)

\* create / update / archive answer a version id or an acknowledgement, else
\* Failed: the truth value the call sites of process_record test
Returned(ok) == ok

\* exists(nativeId) -> {exists, currentVersionId, lastModified} | Failed
check_if_identifier_exists(st, native_identifier_sid, answers) ==
  LET sysmeta == getSystemMetadata(st, native_identifier_sid)
  IN IF ~answers
     THEN [outcome |-> "failed", record_date |-> BadDate, current_version_pid |-> NoPid]
     ELSE IF sysmeta = None
     THEN [outcome |-> "no", record_date |-> BadDate, current_version_pid |-> NoPid]
     ELSE [outcome |-> "yes", record_date |-> Get(sysmeta).date,
           current_version_pid |-> Get(sysmeta).pid]

\* getLastWatermark(): the most recent dateSysMetadataModified of the store,
\* the epoch for an empty store
MaxOf(S) == CHOOSE m \in S : \A n \in S : n <= m
get_last_harvest_time(st) ==
  IF st = {} THEN 0 ELSE MaxOf({v.modified : v \in st})

\* The three mutating calls answer [ret, store, logged, raised]: the truth
\* value process_record tests, the store after the call, the number of lines
\* written to the error log, and whether an exception left the call.
load_science_metadata(st, sci_metadata_bytes, native_identifier_sid, record_date, t, ok) ==
  LET version_pid == _generate_version_pid(native_identifier_sid, t)
      system_metadata == _generate_system_metadata(sci_metadata_bytes,
                            native_identifier_sid, version_pid, t)
      res == MNCreate(st, StoredVersion(system_metadata, record_date), ok)
  IN [ret |-> Returned(res.ok), store |-> res.store,
      logged |-> IF res.ok THEN 0 ELSE 1, raised |-> FALSE]

\* getSystemMetadata is called before the try block: when it fails the
\* exception leaves update_science_metadata
update_science_metadata(st, sci_metadata_bytes, native_identifier_sid, record_date, t, lookupOk, ok) ==
  LET new_version_pid == _generate_version_pid(native_identifier_sid, t)
      old_version_system_metadata == getSystemMetadata(st, native_identifier_sid)
  IN IF ~lookupOk \/ old_version_system_metadata = None
     THEN [ret |-> FALSE, store |-> st, logged |-> 0, raised |-> TRUE]
     ELSE LET old_version_pid == Get(old_version_system_metadata).pid
              new_version_system_metadata ==
                _generate_system_metadata(sci_metadata_bytes, native_identifier_sid,
                                          new_version_pid, t)
              res == MNUpdate(st, old_version_pid,
                              StoredVersion(new_version_system_metadata, record_date), ok)
          IN [ret |-> Returned(res.ok), store |-> res.store,
              logged |-> IF res.ok THEN 0 ELSE 1, raised |-> FALSE]

\* fault variant: the archive call is made outside a try block
archive_science_metadata_without_try(st, current_version_pid, ok) ==
  LET res == MNArchive(st, current_version_pid, ok)
  IN [ret |-> Returned(res.ok), store |-> res.store, logged |-> 0,
      raised |-> ~res.ok]

archive_science_metadata(st, current_version_pid, ok) ==
  LET res == MNArchive(st, current_version_pid, ok)
  IN [ret |-> Returned(res.ok), store |-> res.store,
      logged |-> IF res.ok THEN 0 ELSE 1, raised |-> FALSE]

\* ------------------------------------------------------------------ process_record
\* What one call of process_record did:
\*   raised   an exception left process_record      logged   error-log lines written
\*   calls    the mutating manager calls issued     store    the Target Store afterwards
\*   counter  the global counter incremented ("none" when none was)
\*   outcome  the answer of the existence check ("none" when none was made)
\*   ret      the truth value the mutating call returned (FALSE when none did)
Call(op, sid, content, date, pid) ==
  [op |-> op, sid |-> sid, content |-> content, date |-> date, pid |-> pid]

Result(raised, logged, calls, st, counter, outcome, ret) ==
  [raised |-> raised, logged |-> logged, calls |-> calls, store |-> st,
   counter |-> counter, outcome |-> outcome, ret |-> ret]

\* the manager logs a failed existence check itself
CheckLogged(checkExistsDict) == IF checkExistsDict.outcome = "failed" THEN 1 ELSE 0

\* fault variant: the counter is incremented whatever the call returned
Counted_unconditionally(ret, name) == name

\* if client_mgr.<call>(...): <name>_count += 1
Counted(ret, name) == IF ret THEN name ELSE "none"

\* fault variant: the deleted branch archives without testing the existence check
DeletedBranch_archiving_unchecked(st, record, answers, ok) ==
  IF record.identifier = None
  THEN [raised |-> TRUE, logged |-> 0, calls |-> <<>>, store |-> st,
        counter |-> "none", outcome |-> "none", ret |-> FALSE]
  ELSE LET identifier == StripPrefix(Get(record.identifier))
           checkExistsDict == check_if_identifier_exists(st, identifier, answers)
           r == archive_science_metadata(st, checkExistsDict.current_version_pid, ok)
       IN [raised |-> FALSE, logged |-> r.logged,
           calls |-> <<Call("archive", identifier, "", BadDate,
                            checkExistsDict.current_version_pid)>>,
           store |-> r.store, counter |-> IF r.ret THEN "archived" ELSE "none",
           outcome |-> checkExistsDict.outcome, ret |-> r.ret]

\* status="deleted": archive the record when it exists in GMN, else count it
\* as a skipped deleted record.  Nothing here is inside a try block.
DeletedDecide(st, identifier, checkExistsDict, ok) ==
  IF checkExistsDict.outcome = "yes"
  THEN LET r == archive_science_metadata(st, checkExistsDict.current_version_pid, ok)
       IN Result(r.raised, r.logged,
                 <<Call("archive", identifier, "", BadDate,
                        checkExistsDict.current_version_pid)>>,
                 r.store, Counted(r.ret, "archived"), "yes", r.ret)
  ELSE Result(FALSE, CheckLogged(checkExistsDict), <<>>, st,
              "skipped_deleted", checkExistsDict.outcome, FALSE)

DeletedBranch(st, record, answers, ok) ==
  IF record.identifier = None
  THEN Result(TRUE, 0, <<>>, st, "none", "none", FALSE)
  ELSE LET identifier == StripPrefix(Get(record.identifier))
           checkExistsDict == check_if_identifier_exists(st, identifier, answers)
       IN DeletedDecide(st, identifier, checkExistsDict, ok)

\* the try block of the not-deleted branch: identifier, datestamp and payload
\* are parsed and the existence check is made; any exception is logged
ParseFails(record) ==
  \/ record.identifier = None
  \/ record.datestamp = None
  \/ Get(record.datestamp) = BadDate
  \/ record.metadata = None

\* fault variant: == where != was meant, an unchanged record is updated
IsUpdate_on_same_date(checkExistsDict, record_date) ==
  checkExistsDict.outcome = "yes" /\ checkExistsDict.record_date = record_date

\* fault variant: every existing identifier is updated, whatever its date
IsUpdate_ignoring_date(checkExistsDict, record_date) ==
  checkExistsDict.outcome = "yes"

\* the condition of the update branch: the identifier exists in GMN and the
\* record date is different
IsUpdate(checkExistsDict, record_date) ==
  checkExistsDict.outcome = "yes" /\ checkExistsDict.record_date # record_date

\* fault variant: the skip branch is taken for a stored date after the record's
IsUnchanged_when_newer(checkExistsDict, record_date) ==
  checkExistsDict.outcome = "yes" /\ checkExistsDict.record_date > record_date

\* the condition of the skip branch: the identifier exists and the date is the same
IsUnchanged(checkExistsDict, record_date) ==
  checkExistsDict.outcome = "yes" /\ checkExistsDict.record_date = record_date

\* the if / elif chain on checkExistsDict after the try block
Decide(st, identifier, record_date, scimeta, checkExistsDict, lookupOk, ok, t) ==
  IF IsUpdate(checkExistsDict, record_date)
  THEN LET r == update_science_metadata(st, toprettyxml(scimeta), identifier,
                                        record_date, t, lookupOk, ok)
       IN Result(r.raised, r.logged,
                 <<Call("update", identifier, toprettyxml(scimeta), record_date,
                        checkExistsDict.current_version_pid)>>,
                 r.store, Counted(r.ret, "updated"), "yes", r.ret)
  ELSE IF IsUnchanged(checkExistsDict, record_date)
  THEN Result(FALSE, 0, <<>>, st, "skipped_exists", "yes", FALSE)
  ELSE IF checkExistsDict.outcome = "failed"
  THEN Result(FALSE, CheckLogged(checkExistsDict), <<>>, st, "none", "failed", FALSE)
  ELSE IF checkExistsDict.outcome = "no"
  THEN LET r == load_science_metadata(st, toprettyxml(scimeta), identifier,
                                      record_date, t, ok)
       IN Result(r.raised, r.logged,
                 <<Call("create", identifier, toprettyxml(scimeta), record_date, NoPid)>>,
                 r.store, Counted(r.ret, "created"), "no", r.ret)
  ELSE Result(FALSE, 0, <<>>, st, "none", checkExistsDict.outcome, FALSE)

\* When the try block fails, checkExistsDict was never bound and the if after
\* the except clause raises UnboundLocalError.
ActiveBranch(st, record, answers, lookupOk, ok, t) ==
  IF ParseFails(record)
  THEN Result(TRUE, 1, <<>>, st, "none", "none", FALSE)
  ELSE LET identifier == StripPrefix(Get(record.identifier))
           record_date == Get(record.datestamp)
           scimeta == Get(record.metadata)
           checkExistsDict == check_if_identifier_exists(st, identifier, answers)
       IN Decide(st, identifier, record_date, scimeta, checkExistsDict, lookupOk, ok, t)

\* fault variant: the status attribute is not tested, every record is harvested
process_record_without_status_test(st, record, answers, lookupOk, ok, t) ==
  IF ~record.header
  THEN Result(TRUE, 0, <<>>, st, "none", "none", FALSE)
  ELSE ActiveBranch(st, record, answers, lookupOk, ok, t)

\* record.find(header).attrib raises when the record has no header; a status
\* attribute other than "deleted" matches neither branch
process_record(st, record, answers, lookupOk, ok, t) ==
  IF ~record.header
  THEN Result(TRUE, 0, <<>>, st, "none", "none", FALSE)
  ELSE IF record.status # NoStatus
  THEN IF record.status = "deleted"
       THEN DeletedBranch(st, record, answers, ok)
       ELSE Result(FALSE, 0, <<>>, st, "none", "none", FALSE)
  ELSE ActiveBranch(st, record, answers, lookupOk, ok, t)

\* ------------------------------------------------------------------ requests
\* fault variant: the fixed time slice of the commented-out parameters is sent
define_params_fixed_slice(start_, rtoken_, last_harvest_time_) ==
  IF start_ = 1
  THEN [params |-> [from |-> Some(0), resumptionToken |-> NoToken],
        start |-> 0, rtoken |-> rtoken_]
  ELSE [params |-> [from |-> None, resumptionToken |-> rtoken_],
        start |-> start_, rtoken |-> NoToken]

\* fault variant: the resumption token is not cleared when it is sent
define_params_keeping_token(start_, rtoken_, last_harvest_time_) ==
  IF start_ = 1
  THEN [params |-> [from |-> Some(last_harvest_time_), resumptionToken |-> NoToken],
        start |-> 0, rtoken |-> rtoken_]
  ELSE [params |-> [from |-> None, resumptionToken |-> rtoken_],
        start |-> start_, rtoken |-> rtoken_]

\* define_params: the first request carries from = last_harvest_time and clears
\* start; every later one carries the resumption token and clears rtoken
define_params(start_, rtoken_, last_harvest_time_) ==
  IF start_ = 1
  THEN [params |-> [from |-> Some(last_harvest_time_), resumptionToken |-> NoToken],
        start |-> 0, rtoken |-> rtoken_]
  ELSE [params |-> [from |-> None, resumptionToken |-> rtoken_],
        start |-> start_, rtoken |-> NoToken]

\* A response: http is "ok", "error" (a status other than 200) or "exception";
\* list is the ListRecords element, None when the answer has none
\* (noRecordsMatch); n is the number of record entries and token the text of
\* the resumptionToken element (NoToken when absent or empty).
Response(http, list) == [http |-> http, list |-> list]
Page(n, token) == [n |-> n, token |-> token]

\* get_records: the ListRecords element of a 200 answer, else None
get_records(response) ==
  IF response.http = "ok" THEN response.list ELSE None

\* fault variant: the loop ignores the resumption token
LoopCondition_first_only(start_, rtoken_) == start_ = 1

\* the while condition of main
LoopCondition(start_, rtoken_) ==
  (start_ = 1) \/ (start_ = 0 /\ rtoken_ # NoToken)

\* ------------------------------------------------------------------ state
VARIABLES
  now,                    \* the wall clock, in ticks, as last read by the manager
  store,                  \* the Target Store: the set of stored versions
  created_count, updated_count, archived_count,
  skipped_exists_count, skipped_deleted_count,
  start,                  \* 1 until the first request of the process was built
  rtoken,                 \* the resumption token of the last page, or NoToken
  last_harvest_time,      \* the watermark read at the start of main
  pc,                     \* "idle", "loop" (at the while test), "records" (in
                          \* the for loop), "done" (summary written), "crashed"
  pending,                \* entries of record_list the for loop has not reached
  tracking_log,           \* the number of summary lines in OAI-PMH_harvest.log
                          \* (the line written last is last.before)
  fetches,                \* ListRecords requests issued by this run
  runs,                   \* runs started so far
  last,                   \* what the last step of main did
  prev,                   \* per native id, the last record processed for it
  created_calls,          \* load_science_metadata calls of this run
  store0,                 \* the Target Store when this run started
  processed,              \* record entries handed to process_record so far
  fetch_failed,           \* a request of this run failed
  error_seen,             \* a request or a record of some run failed so far
  accounted,              \* records of this run the counters have to show
  created_before,         \* created_count at the end of the run before this one
  repo, page_size, sentinel_mode, listing, served,  \* the modelled repository
  proc                    \* two runs at the same time: where each process is in
                          \* process_record of the record it was handed

counters ==
  <<created_count, updated_count, archived_count,
    skipped_exists_count, skipped_deleted_count>>
source == <<repo, page_size, sentinel_mode, listing, served>>
vars ==
  <<now, store, counters, start, rtoken, last_harvest_time, pc, pending,
    tracking_log, fetches, runs, last, prev, created_calls, store0, processed,
    fetch_failed, error_seen, accounted, created_before, source, proc>>

CounterNames == {"created", "updated", "archived", "skipped_exists", "skipped_deleted"}
Bump(name, counter) == IF counter = name THEN 1 ELSE 0

NoRecord ==
  [header |-> FALSE, status |-> NoStatus, identifier |-> None,
   datestamp |-> None, metadata |-> None]
NoParams == [from |-> None, resumptionToken |-> NoToken]
NoPrev == [status |-> "never", date |-> BadDate, applied |-> FALSE]

\* the native id of an entry whose header carries an identifier
HasId(record) == record.header /\ record.identifier # None
IdOf(record) == StripPrefix(Get(record.identifier))

\* What a step of main did, for the properties to read:
\*   op, record     the step and the entry it was given
\*   ref            the head version of the entry's native id before the step
\*   was            the record processed before it for the same native id
\*   before         the five counters before the step
\*   storeSame      the step left the Target Store as it was
\*   params, got    the request sent and what came back (a fetch)
Observe(op, record, res, before, st, params, got) ==
  [op |-> op, record |-> record, raised |-> res.raised, logged |-> res.logged,
   calls |-> res.calls, counter |-> res.counter, outcome |-> res.outcome,
   ret |-> res.ret,
   ref |-> IF HasId(record) THEN getSystemMetadata(st, IdOf(record)) ELSE None,
   was |-> IF HasId(record) THEN prev[IdOf(record)] ELSE NoPrev,
   before |-> before, storeSame |-> (res.store = st), params |-> params, got |-> got]
Quiet(st) == Result(FALSE, 0, <<>>, st, "none", "none", FALSE)

\* a process that was handed no record
NoCheck == [outcome |-> "none", record_date |-> BadDate, current_version_pid |-> NoPid]
Idle(record) ==
  [at |-> "check", record |-> record, checkExistsDict |-> NoCheck,
   calls |-> <<>>, ret |-> FALSE, stale |-> FALSE, raised |-> FALSE,
   logged |-> 0, counter |-> "none", storeSame |-> TRUE, vanished |-> FALSE]
NoProc == [p \in {1, 2} |-> Idle(NoRecord)]

\* the module globals as the interpreter sets them when the script is loaded
Init ==
  /\ now = 0
  /\ store = {}
  /\ created_count = 0 /\ updated_count = 0 /\ archived_count = 0
  /\ skipped_exists_count = 0 /\ skipped_deleted_count = 0
  /\ start = 1
  /\ rtoken = NoToken
  /\ last_harvest_time = 0
  /\ pc = "idle"
  /\ pending = 0
  /\ tracking_log = 0
  /\ fetches = 0
  /\ runs = 0
  /\ last = Observe("none", NoRecord, Quiet({}), <<0, 0, 0, 0, 0>>, {}, NoParams, "none")
  /\ prev = [id \in NativeIds \cup {SENTINEL_ID} |-> NoPrev]
  /\ created_calls = 0
  /\ store0 = {}
  /\ processed = 0
  /\ fetch_failed = FALSE
  /\ error_seen = FALSE
  /\ accounted = 0
  /\ created_before = 0
  /\ repo = {} /\ page_size = 1 /\ sentinel_mode = FALSE
  /\ listing = <<>> /\ served = 0
  /\ proc = NoProc

\* python d1_adapter_pangaea.py: the module is loaded (counters 0, start 1,
\* rtoken None) and main reads the watermark
StartRun ==
  /\ pc \in {"idle", "done", "crashed"}
  /\ runs < MaxRuns
  /\ runs' = runs + 1
  /\ created_count' = 0 /\ updated_count' = 0 /\ archived_count' = 0
  /\ skipped_exists_count' = 0 /\ skipped_deleted_count' = 0
  /\ start' = 1
  /\ rtoken' = NoToken
  /\ last_harvest_time' = get_last_harvest_time(store)
  /\ pc' = "loop"
  /\ pending' = 0
  /\ fetches' = 0
  /\ created_calls' = 0
  /\ store0' = store
  /\ fetch_failed' = FALSE
  /\ accounted' = 0
  /\ created_before' = created_count
  /\ last' = Observe("start", NoRecord, Quiet(store), <<0, 0, 0, 0, 0>>, store, NoParams, "none")
  /\ UNCHANGED <<now, store, tracking_log, prev, processed, error_seen, source, proc>>

\* one pass of the while loop up to the for loop: define_params, get_records,
\* the resumption token taken out of the list
FetchWith(response) ==
  LET dp == define_params(start, rtoken, last_harvest_time)
      record_list == get_records(response)
  IN /\ start' = dp.start
     /\ fetches' = fetches + 1
     /\ IF record_list # None
        THEN /\ rtoken' = Get(record_list).token
             /\ pending' = Get(record_list).n
             /\ pc' = IF Get(record_list).n > 0 THEN "records" ELSE "loop"
        ELSE /\ rtoken' = dp.rtoken
             /\ pending' = 0
             /\ pc' = "loop"
     /\ last' = Observe("fetch", NoRecord, Quiet(store), counters, store, dp.params,
                        IF record_list # None THEN "page"
                        ELSE IF response.http = "ok" THEN "empty" ELSE "failed")
     /\ fetch_failed' = (fetch_failed \/ response.http # "ok")
     /\ error_seen' = (error_seen \/ response.http # "ok")
     /\ UNCHANGED <<now, store, counters, last_harvest_time, tracking_log, runs,
                    prev, created_calls, store0, processed, accounted,
                    created_before, proc>>

\* any source: the page is whatever the server answers
Responses(mayContinue) ==
  {Response(h, None) : h \in {"ok", "error", "exception"}}
  \cup {Response("ok", Some(Page(n, tok))) :
          n \in 0..(MaxRecords - processed),
          tok \in IF mayContinue THEN Tokens \cup {NoToken} ELSE {NoToken}}

Fetch ==
  /\ pc = "loop"
  /\ LoopCondition(start, rtoken)
  /\ \E response \in Responses(fetches + 1 < MaxFetch) : FetchWith(response)
  /\ UNCHANGED source

\* 1 for a record the counters have to show: its existence check answered and
\* its action needed no call or its call succeeded, or it is a deleted record
\* whose existence check failed (it is counted as a skipped deleted record)
Accounts(record, res) ==
  IF \/ res.outcome \in {"yes", "no"} /\ ~res.raised /\ (res.calls = <<>> \/ res.ret)
     \/ res.outcome = "failed" /\ record.status = "deleted"
  THEN 1 ELSE 0

\* the record processed last for a native id, kept to relate two records
Remember(record, res) ==
  IF /\ record.header
     /\ record.identifier # None
     /\ record.datestamp # None
     /\ \/ record.status = "deleted"
        \/ record.status = NoStatus /\ ~ParseFails(record)
  THEN [prev EXCEPT ![StripPrefix(Get(record.identifier))] =
          [status |-> record.status, date |-> Get(record.datestamp),
           applied |-> res.counter \in {"created", "updated", "skipped_exists"}]]
  ELSE prev

\* at most one member-node call of a record fails: the existence check, the
\* lookup inside update_science_metadata, or the create / update / archive
Faults == {"none", "check", "lookup", "call"}

\* one iteration of the for loop: process_record on the next entry
ReadsClock(res) ==
  \E i \in DOMAIN res.calls : res.calls[i].op \in {"create", "update"}

\* t is the value of datetime.now() when the manager mints a version pid: the
\* clock never runs backwards, and it is observed only when a pid is minted
ProcessWith(record, answers, lookupOk, ok, t) ==
  \E res \in {process_record(store, record, answers, lookupOk, ok, t)} :
     /\ t = now \/ ReadsClock(res)
     /\ now' = t
     /\ store' = res.store
     /\ created_count' = created_count + Bump("created", res.counter)
     /\ updated_count' = updated_count + Bump("updated", res.counter)
     /\ archived_count' = archived_count + Bump("archived", res.counter)
     /\ skipped_exists_count' = skipped_exists_count + Bump("skipped_exists", res.counter)
     /\ skipped_deleted_count' = skipped_deleted_count + Bump("skipped_deleted", res.counter)
     /\ pending' = IF res.raised THEN pending ELSE pending - 1
     /\ pc' = IF res.raised THEN "crashed"
              ELSE IF pending = 1 THEN "loop" ELSE "records"
     /\ created_calls' = created_calls
                         + Cardinality({i \in DOMAIN res.calls : res.calls[i].op = "create"})
     /\ prev' = Remember(record, res)
     /\ processed' = processed + 1
     /\ error_seen' = (error_seen \/ res.raised \/ res.logged > 0)
     /\ accounted' = accounted + Accounts(record, res)
     /\ last' = Observe("record", record, res, counters, store, NoParams, "none")
     /\ UNCHANGED <<start, rtoken, last_harvest_time, tracking_log, fetches,
                    runs, store0, fetch_failed, created_before, proc>>

ProcessRecord ==
  /\ pc = "records"
  /\ pending > 0
  /\ \E record \in Records, fault \in Faults, t \in now..MaxClock :
        ProcessWith(record, fault # "check", fault # "lookup", fault # "call", t)
  /\ UNCHANGED source

\* after the while loop: one line appended to the tracking log
WriteSummary ==
  /\ pc = "loop"
  /\ ~LoopCondition(start, rtoken)
  /\ tracking_log' = tracking_log + 1
  /\ pc' = "done"
  /\ last' = Observe("summary", NoRecord, Quiet(store), counters, store, NoParams, "none")
  /\ UNCHANGED <<now, store, counters, start, rtoken, last_harvest_time, pending,
                 fetches, runs, prev, created_calls, store0, processed,
                 fetch_failed, error_seen, accounted, created_before, source,
                 proc>>

Next == StartRun \/ Fetch \/ ProcessRecord \/ WriteSummary

Spec == Init /\ [][Next]_vars

\* ------------------------------------------------------------------ a repository
\* The OAI-PMH server as the module docstring describes it: the records that
\* match the query are served in batches of page_size; in sentinel mode the
\* last batch is followed by a valid resumption token and then by the dummy
\* deleted record, else a batch carries a token while records remain.
SentinelRecord ==
  [header |-> TRUE, status |-> "deleted", identifier |-> Some(SENTINEL_WIRE),
   datestamp |-> Some(1), metadata |-> None]

\* the repository holds at most one record per identifier
RepoRecords(w) ==
  [header : {TRUE}, status : {NoStatus}, identifier : {Some(w)},
   datestamp : {Some(d) : d \in Dates}, metadata : {Some("A")}]
  \cup DeletedRecords({w}, Dates)
WireOrder == <<<<PREFIX, "x1">>, <<PREFIX, "x2">>>>
Repos ==
  {S \in SUBSET (RepoRecords(WireOrder[1]) \cup RepoRecords(WireOrder[2])) :
     \A a, b \in S : a.identifier = b.identifier => a = b}

\* ListRecords from=...: the records whose datestamp is not before from, in
\* the order of their identifiers
RECURSIVE Listing(_, _, _)
Listing(rp, from, i) ==
  IF i > Len(WireOrder) THEN <<>>
  ELSE LET hit == {r \in rp : r.identifier = Some(WireOrder[i])
                              /\ Get(r.datestamp) >= from}
       IN (IF hit = {} THEN <<>> ELSE <<Get(hit)>>) \o Listing(rp, from, i + 1)

Min(a, b) == IF a <= b THEN a ELSE b

\* the answer of the server to a request, given the list of the session and
\* the number of its records already served
Serve(list, done, first) ==
  LET rest == Len(list) - done
      n == Min(page_size, rest)
  IN IF rest > 0
     THEN Response("ok", Some(Page(n, IF rest - n > 0 \/ sentinel_mode
                                      THEN "t1" ELSE NoToken)))
     ELSE IF first THEN Response("ok", None)
     ELSE Response("ok", Some(Page(1, NoToken)))

\* the entry the for loop reaches next
EntryAt(k) == IF k <= Len(listing) THEN listing[k] ELSE SentinelRecord

\* the Target Store before the first run: empty, or holding the version of x1
\* an earlier run created
InitialStores ==
  { {},
    {Version(_generate_version_pid(StripPrefix(WireOrder[1]), 0),
             StripPrefix(WireOrder[1]), 1, toprettyxml("A"), 0, NoPid)} }

InitSrc ==
  /\ now = 0
  /\ store \in InitialStores
  /\ created_count = 0 /\ updated_count = 0 /\ archived_count = 0
  /\ skipped_exists_count = 0 /\ skipped_deleted_count = 0
  /\ start = 1
  /\ rtoken = NoToken
  /\ last_harvest_time = 0
  /\ pc = "idle"
  /\ pending = 0
  /\ tracking_log = 0
  /\ fetches = 0
  /\ runs = 0
  /\ last = Observe("none", NoRecord, Quiet({}), <<0, 0, 0, 0, 0>>, {}, NoParams, "none")
  /\ prev = [id \in NativeIds \cup {SENTINEL_ID} |-> NoPrev]
  /\ created_calls = 0
  /\ store0 = store
  /\ processed = 0
  /\ fetch_failed = FALSE
  /\ error_seen = FALSE
  /\ accounted = 0
  /\ created_before = 0
  /\ repo \in Repos
  /\ page_size \in 1..MaxPageSize
  /\ sentinel_mode \in BOOLEAN
  /\ listing = <<>>
  /\ served = 0
  /\ proc = NoProc

\* a request to the repository: it may fail in transit; a first request opens
\* a new result list
SrcFetch ==
  /\ pc = "loop"
  /\ LoopCondition(start, rtoken)
  /\ \E failure \in {"none", "error", "exception"} :
       LET first == start = 1
           list == IF first THEN Listing(repo, last_harvest_time, 1) ELSE listing
           done == IF first THEN 0 ELSE served
       IN /\ listing' = list
          /\ served' = done
          /\ FetchWith(IF failure = "none" THEN Serve(list, done, first)
                       ELSE Response(failure, None))
  /\ UNCHANGED <<repo, page_size, sentinel_mode>>

SrcProcessRecord ==
  /\ pc = "records"
  /\ pending > 0
  /\ served' = served + 1
  /\ \E fault \in Faults, t \in now..MaxClock :
        ProcessWith(EntryAt(served + 1), fault # "check", fault # "lookup",
                    fault # "call", t)
  /\ UNCHANGED <<repo, page_size, sentinel_mode, listing>>

NextSrc == StartRun \/ SrcFetch \/ SrcProcessRecord \/ WriteSummary

SpecSrc == InitSrc /\ [][NextSrc]_vars

\* ------------------------------------------------------------------ two runs at once
\* Two processes run the script at the same time (cron starting a run while
\* the one before is still at work) and each is in process_record with a
\* record of the same native id.  process_record takes no lock: the existence
\* check and the call that acts on its answer are two requests to the member
\* node, and requests of the other process can come in between.
TwoRunRecords ==
  ActiveRecords({WireOrder[1]}) \cup DeletedRecords({WireOrder[1]}, {1})

InitTwoRuns ==
  /\ now = 0
  /\ store \in InitialStores
  /\ created_count = 0 /\ updated_count = 0 /\ archived_count = 0
  /\ skipped_exists_count = 0 /\ skipped_deleted_count = 0
  /\ start = 0
  /\ rtoken = NoToken
  /\ last_harvest_time = 0
  /\ pc = "records"
  /\ pending = 1
  /\ tracking_log = 0
  /\ fetches = 1
  /\ runs = 2
  /\ last = Observe("none", NoRecord, Quiet({}), <<0, 0, 0, 0, 0>>, {}, NoParams, "none")
  /\ prev = [id \in NativeIds \cup {SENTINEL_ID} |-> NoPrev]
  /\ created_calls = 0
  /\ store0 = store
  /\ processed = 0
  /\ fetch_failed = FALSE
  /\ error_seen = FALSE
  /\ accounted = 0
  /\ created_before = 0
  /\ repo = {} /\ page_size = 1 /\ sentinel_mode = FALSE
  /\ listing = <<>> /\ served = 0
  /\ proc \in [{1, 2} -> {Idle(record) : record \in TwoRunRecords}]

\* what the two-process steps leave alone: the globals of either process are
\* not followed here
RunGlobals ==
  <<counters, start, rtoken, last_harvest_time, pc, pending, tracking_log,
    fetches, runs, last, prev, created_calls, store0, processed, fetch_failed,
    error_seen, accounted, created_before, source>>

\* process p makes the existence check of its record
CheckStep(p) ==
  /\ proc[p].at = "check"
  /\ proc' = [proc EXCEPT
                ![p].checkExistsDict =
                   check_if_identifier_exists(store, IdOf(proc[p].record), TRUE),
                ![p].at = "act"]
  /\ UNCHANGED <<now, store, RunGlobals>>

\* process p goes through the branches on the answer it holds and makes the
\* call they lead to
ActStep(p) ==
  /\ proc[p].at = "act"
  /\ \E t \in now..MaxClock :
       LET record == proc[p].record
           identifier == IdOf(record)
           checkExistsDict == proc[p].checkExistsDict
       IN \E res \in {IF record.status = "deleted"
                      THEN DeletedDecide(store, identifier, checkExistsDict, TRUE)
                      ELSE Decide(store, identifier, Get(record.datestamp),
                                  Get(record.metadata), checkExistsDict,
                                  TRUE, TRUE, t)} :
            /\ t = now \/ ReadsClock(res)
            /\ now' = t
            /\ store' = res.store
            /\ proc' = [proc EXCEPT
                          ![p].at = "done",
                          ![p].calls = res.calls,
                          ![p].ret = res.ret,
                          ![p].raised = res.raised,
                          ![p].logged = res.logged,
                          ![p].counter = res.counter,
                          ![p].storeSame = (res.store = store),
                          ![p].stale =
                             (checkExistsDict #
                                check_if_identifier_exists(store, identifier, TRUE))]
  /\ UNCHANGED RunGlobals

NextTwoRuns == \E p \in {1, 2} : CheckStep(p) \/ ActStep(p)

SpecTwoRuns == InitTwoRuns /\ [][NextTwoRuns]_vars

\* ------------------------------------------------------------------ out of band
\* Somebody else (an administrator of the member node) archives or deletes
\* the current version of the native id while process 1 is between its
\* existence check and the call it makes on the answer.
Vanish(how) ==
  /\ proc[1].at = "act"
  /\ proc[1].checkExistsDict.outcome = "yes"
  /\ ~proc[1].vanished
  /\ LET hit == ByPid(store, proc[1].checkExistsDict.current_version_pid)
     IN /\ hit # {}
        /\ store' = IF how = "archive"
                    THEN MNArchive(store, proc[1].checkExistsDict.current_version_pid,
                                   TRUE).store
                    ELSE store \ hit
  /\ proc' = [proc EXCEPT ![1].vanished = TRUE]
  /\ UNCHANGED <<now, RunGlobals>>

NextOutOfBand ==
  CheckStep(1) \/ ActStep(1) \/ Vanish("archive") \/ Vanish("delete")

SpecOutOfBand == InitTwoRuns /\ [][NextOutOfBand]_vars

\* --------------------------------------------- main called again, same process
\* main() entered a second time without the module being loaded again: main
\* reads the watermark and goes to the while test; the module globals (the
\* five counters, start, rtoken) are assigned at module load only and keep
\* the values the call before left in them
MainAgain ==
  /\ pc \in {"done", "crashed"}
  /\ runs < MaxRuns
  /\ runs' = runs + 1
  /\ last_harvest_time' = get_last_harvest_time(store)
  /\ pc' = "loop"
  /\ pending' = 0
  /\ fetches' = 0
  /\ created_calls' = 0
  /\ store0' = store
  /\ fetch_failed' = FALSE
  /\ accounted' = 0
  /\ created_before' = created_count
  /\ last' = Observe("start", NoRecord, Quiet(store), counters, store, NoParams, "none")
  /\ UNCHANGED <<now, store, counters, start, rtoken, tracking_log, prev,
                 processed, error_seen, source, proc>>

NextSameProcess ==
  StartRun \/ MainAgain \/ Fetch \/ ProcessRecord \/ WriteSummary

SpecSameProcess == Init /\ [][NextSameProcess]_vars

\* ================================================================== properties
IsRecordStep == last.op = "record"
WellFormedActive(record) ==
  record.header /\ record.status = NoStatus /\ ~ParseFails(record)
WellFormedDeleted(record) ==
  record.header /\ record.status = "deleted" /\ record.identifier # None

\* the counters are those before the step, with the named one increased by 1
CountersAre(before, name) ==
  /\ created_count = before[1] + Bump("created", name)
  /\ updated_count = before[2] + Bump("updated", name)
  /\ archived_count = before[3] + Bump("archived", name)
  /\ skipped_exists_count = before[4] + Bump("skipped_exists", name)
  /\ skipped_deleted_count = before[5] + Bump("skipped_deleted", name)

\* the decision table of the specification: the call and the counter of a
\* well-formed record, given the head version (ref) of its native id
TableCalls(record, ref) ==
  IF record.status = "deleted"
  THEN IF ref = None THEN <<>>
       ELSE <<Call("archive", IdOf(record), "", BadDate, Get(ref).pid)>>
  ELSE IF ref = None
       THEN <<Call("create", IdOf(record), toprettyxml(Get(record.metadata)),
                   Get(record.datestamp), NoPid)>>
       ELSE IF Get(record.datestamp) = Get(ref).date THEN <<>>
       ELSE <<Call("update", IdOf(record), toprettyxml(Get(record.metadata)),
                   Get(record.datestamp), Get(ref).pid)>>

TableCounter(record, ref) ==
  IF record.status = "deleted"
  THEN IF ref = None THEN "skipped_deleted" ELSE "archived"
  ELSE IF ref = None THEN "created"
       ELSE IF Get(record.datestamp) = Get(ref).date THEN "skipped_exists"
       ELSE "updated"

\* C1: a failure confined to one record never aborts the run: whatever the
\* record and whichever call fails, no exception leaves process_record and
\* main goes on to the next record, the next page and the summary.
C1_RecordFailureNeverAbortsRun ==
  IsRecordStep => (~last.raised /\ pc # "crashed")

\* C2 as stated: an entry whose identifier is the termination sentinel is
\* discarded: it causes no create, update or archive call and changes none of
\* the five counters.
C2_SentinelChangesNothing ==
  (IsRecordStep /\ IsSentinel(last.record)) =>
     (last.calls = <<>> /\ CountersAre(last.before, "none"))

\* C2 as amended: the sentinel is not discarded but processed as a deleted
\* record of a native id the store does not hold: it causes no create, update
\* or archive call, leaves the store as it is, raises nothing, and increments
\* skipped_deleted_count by exactly 1 and no other counter.
C2_SentinelCountedAsSkippedDeleted ==
  (IsRecordStep /\ IsSentinel(last.record)) =>
     /\ ~last.raised
     /\ last.calls = <<>>
     /\ last.storeSame
     /\ CountersAre(last.before, "skipped_deleted")

C2_Witness ==
  /\ IsRecordStep /\ IsSentinel(last.record)
  /\ skipped_deleted_count = last.before[5] + 1
  /\ rtoken # NoToken

\* C3: a fetch failure is run-fatal and does not advance the watermark: after
\* a failed request the run issues no further request, and the run started
\* next reads the watermark the failed run started from.
C3_FetchFailureKeepsWatermark ==
  [][ /\ (fetch_failed /\ runs' = runs) => fetches' = fetches
      /\ (fetch_failed /\ runs' = runs + 1) => last_harvest_time' = last_harvest_time
    ]_vars

\* C4: the decision table: a record whose existence check answered issues
\* exactly the mutating call its row names (archive of the current version,
\* create, update on the current version) and no call in the two skip rows.
C4_DecisionTable ==
  (IsRecordStep /\ last.outcome \in {"yes", "no"}) =>
     /\ (last.outcome = "yes") = (last.ref # None)
     /\ last.calls = TableCalls(last.record, last.ref)

C4_Witness ==
  /\ IsRecordStep /\ last.outcome = "yes"
  /\ Len(last.calls) = 1 /\ last.calls[1].op = "update"
  /\ last.calls[1].pid = Get(last.ref).pid

\* C5 as stated: the counters are zero when a run starts, and a record whose
\* existence check answered increments exactly the counter of its row by 1.
C5_OneCounterPerRecord ==
  /\ last.op = "start" => CountersAre(<<0, 0, 0, 0, 0>>, "none")
  /\ (IsRecordStep /\ last.outcome \in {"yes", "no"}) =>
        CountersAre(last.before, TableCounter(last.record, last.ref))

\* C5 as amended: the counters are zero when a run starts; a record whose
\* existence check answered increments the counter of its row by 1 when the
\* row needs no call or its call succeeded, and no counter when the call
\* failed; the sum of the counters is the number of those records plus the
\* deleted records whose existence check failed.
C5_CounterCountsSuccess ==
  /\ last.op = "start" => CountersAre(<<0, 0, 0, 0, 0>>, "none")
  /\ (IsRecordStep /\ last.outcome \in {"yes", "no"}) =>
        IF last.calls = <<>> \/ last.ret
        THEN CountersAre(last.before, TableCounter(last.record, last.ref))
        ELSE CountersAre(last.before, "none")
  /\ created_count + updated_count + archived_count
       + skipped_exists_count + skipped_deleted_count = accounted

C5_Witness ==
  /\ IsRecordStep /\ last.outcome = "no" /\ last.calls # <<>> /\ ~last.ret
  /\ accounted = 1 /\ skipped_deleted_count = 1

\* C6: a deleted record whose native id has no entry in the Target Store (the
\* existence check answers "no") increments skipped_deleted_count by 1, issues
\* no create, update or archive, leaves the store unchanged, and neither
\* raises nor logs an error.
C6_DeletedUnknownIsSkipped ==
  (IsRecordStep /\ WellFormedDeleted(last.record) /\ last.ref = None
     /\ last.outcome = "no") =>
     /\ CountersAre(last.before, "skipped_deleted")
     /\ last.calls = <<>>
     /\ last.storeSame
     /\ ~last.raised
     /\ last.logged = 0

C6_Witness ==
  /\ IsRecordStep /\ WellFormedDeleted(last.record) /\ ~IsSentinel(last.record)
  /\ last.ref = None /\ last.outcome = "no"
  /\ skipped_deleted_count = 2

\* C7: when the existence check itself fails the record is a no-op, for
\* active and for deleted records: no call and no counter changes.
C7_FailedCheckIsNoOp ==
  (IsRecordStep /\ last.outcome = "failed") =>
     (last.calls = <<>> /\ CountersAre(last.before, "none"))

\* C8 as stated: of two active records with the same native id and the same
\* datestamp the second issues no call and increments skipped_exists_count.
C8_SameDateIsSkipped ==
  (IsRecordStep /\ WellFormedActive(last.record)
     /\ last.was.status = NoStatus /\ last.was.date = Get(last.record.datestamp)) =>
     (last.calls = <<>> /\ CountersAre(last.before, "skipped_exists"))

\* C8 as amended: when the earlier of two consecutive active records of a
\* native id was applied (created, updated or itself skipped as existing) and
\* the existence check of the later one answers, the later one issues no call
\* and increments skipped_exists_count by 1 if the datestamps are equal,
\* whatever the payloads, and issues exactly one update if they differ.
C8_SameDateSkippedAfterApplied ==
  (IsRecordStep /\ WellFormedActive(last.record)
     /\ last.was.status = NoStatus /\ last.was.applied
     /\ last.outcome # "failed") =>
     IF last.was.date = Get(last.record.datestamp)
     THEN last.calls = <<>> /\ CountersAre(last.before, "skipped_exists")
     ELSE Len(last.calls) = 1 /\ last.calls[1].op = "update"

C8_Witness ==
  /\ IsRecordStep /\ WellFormedActive(last.record)
  /\ last.was.status = NoStatus /\ last.was.applied
  /\ last.was.date = Get(last.record.datestamp)
  /\ Get(last.ref).content # toprettyxml(Get(last.record.metadata))
  /\ skipped_exists_count = last.before[4] + 1

\* the entries of the repository a run with watermark from is served
ListedActive(from) ==
  {r \in repo : r.status = NoStatus /\ Get(r.datestamp) >= from}
ListedDeleted(from) ==
  {r \in repo : r.status = "deleted" /\ Get(r.datestamp) >= from}

\* a run that follows another one, with nothing failed in either: the
\* repository of SpecSrc never changes
CleanRepeatRun == last.op = "summary" /\ runs >= 2 /\ ~error_seen

FullRunOfUnseen ==
  /\ last.op = "summary" /\ ~error_seen
  /\ \A r \in repo : /\ r.status = NoStatus
                     /\ getSystemMetadata(store0, IdOf(r)) = None
                     /\ Get(r.datestamp) >= last_harvest_time

CeilDiv(n, p) == (n + p - 1) \div p

\* C10 as stated: N active unseen records in pages of P take exactly
\* ceil(N/P) requests and N create calls, whether or not the sentinel record
\* follows the final token.
C10_CeilFetchesAndNCreates ==
  FullRunOfUnseen =>
     /\ fetches = CeilDiv(Cardinality(repo), page_size)
     /\ created_calls = Cardinality(repo)

\* C10 as amended: N active unseen records in pages of P take N create
\* calls; for N >= 1 they take ceil(N/P) requests when the last batch carries
\* no token but ceil(N/P) + 1 when the list ends with a token followed by the
\* sentinel record, which is one more page to fetch; for N = 0 the run makes
\* the one request that finds nothing; nothing failing in the run.
C10_SentinelCostsOneMoreFetch ==
  FullRunOfUnseen =>
     /\ fetches = IF repo = {} THEN 1
                  ELSE CeilDiv(Cardinality(repo), page_size)
                       + (IF sentinel_mode THEN 1 ELSE 0)
     /\ created_calls = Cardinality(repo)

C10_Witness ==
  /\ FullRunOfUnseen
  /\ sentinel_mode
  /\ Cardinality(repo) = 2 /\ page_size = 1
  /\ fetches = 3 /\ created_calls = 2 /\ created_count = 2

\* a run that is over: its summary is written, or an exception ended main
RunOver == pc \in {"done", "crashed"}

\* C11: the pagination loop is token-driven: the first request of a run
\* carries from = watermark and no token; at the while test after a request
\* the loop goes on exactly when the page just received carried a resumption
\* token; and a run is never over while the page received last carried a
\* token that was not yet used for a further request.
C11_TokenDrivenLoop ==
  /\ (last.op = "fetch" /\ fetches = 1) =>
        last.params = [from |-> Some(last_harvest_time), resumptionToken |-> NoToken]
  /\ (last.op = "fetch" /\ fetches > 1) =>
        (last.params.from = None /\ last.params.resumptionToken # NoToken)
  /\ (pc = "loop" /\ fetches >= 1) =>
        (LoopCondition(start, rtoken) <=> rtoken # NoToken)
  /\ RunOver => rtoken = NoToken

\* the loop itself, at the while test and in the requests it sends
C11_LoopTestIsTokenTest ==
  /\ (last.op = "fetch" /\ fetches = 1) =>
        last.params = [from |-> Some(last_harvest_time), resumptionToken |-> NoToken]
  /\ (last.op = "fetch" /\ fetches > 1) =>
        (last.params.from = None /\ last.params.resumptionToken # NoToken)
  /\ (pc = "loop" /\ fetches >= 1) =>
        (LoopCondition(start, rtoken) <=> rtoken # NoToken)
  /\ pc = "done" => rtoken = NoToken

\* the step called load_science_metadata or update_science_metadata and the
\* call got as far as the member node
MintsPid ==
  /\ IsRecordStep /\ ~last.raised
  /\ last.calls # <<>> /\ last.calls[1].op \in {"create", "update"}
\* the version pid that call generated: the clock was read at now
MintedPid == _generate_version_pid(last.calls[1].sid, now)
\* the version pids of the Target Store before the step
PidsBefore ==
  IF last.storeSame THEN Pids(store) ELSE Pids(store) \ {MintedPid}

\* C12: version identifiers never collide: the pid generated for a create or
\* an update is the pid of no version the Target Store already holds, also
\* when the earlier version of the native id was made in the same clock minute.
C12_VersionPidsNeverCollide ==
  MintsPid => MintedPid \notin PidsBefore

\* the step updated a native id and the member node accepted the update
UpdateApplied ==
  /\ IsRecordStep /\ last.ret
  /\ last.calls # <<>> /\ last.calls[1].op = "update"
VersionsOf(st, sid) == {v \in st : v.sid = sid}

\* the chain an update leaves behind: one version more for the native id (two
\* after a create and one update), the new version obsoletes the version
\* that was current, that version is obsoleted by the new one, and the
\* existence check reports the new version as the current one
ChainAfterUpdate ==
  LET sid == last.calls[1].sid
      old_pid == Get(last.ref).pid
      now_ref == check_if_identifier_exists(store, sid, TRUE)
      new_pid == now_ref.current_version_pid
  IN /\ now_ref.outcome = "yes"
     /\ new_pid # old_pid
     /\ new_pid = MintedPid
     /\ \A v \in ByPid(store, new_pid) : v.obsoletes = old_pid
     /\ \A v \in ByPid(store, old_pid) : v.obsoletedBy = new_pid
     /\ Cardinality(ByPid(store, old_pid)) = 1
     /\ Cardinality(ByPid(store, new_pid)) = 1
     /\ Get(last.ref).obsoletes = NoPid => Cardinality(VersionsOf(store, sid)) = 2

\* C13: update produces a version chain: after create and then update of a
\* native id, with no failure of the member node or the network, the store
\* holds two versions linked by obsoletes / obsoletedBy and the existence
\* check reports the second one as current.
C13_UpdateChainsVersions ==
  (MintsPid /\ last.calls[1].op = "update"
     /\ (last.ret \/ MintedPid \in PidsBefore)) => ChainAfterUpdate

\* the same for the updates the member node accepted
C13_AcceptedUpdateChainsVersions == UpdateApplied => ChainAfterUpdate

\* the versions of a native id that are neither archived nor obsoleted
ActiveVersions(st, sid) ==
  {v \in st : v.sid = sid /\ ~v.archived /\ v.obsoletedBy = NoPid}

\* C14: in every reachable state of the Target Store at most one version that
\* is neither archived nor obsoleted belongs to any native id.
C14_AtMostOneActiveVersion ==
  \A sid \in NativeIds \cup {SENTINEL_ID} :
     Cardinality(ActiveVersions(store, sid)) <= 1

\* process p made the call op and the member node accepted it
Applied(p, op) ==
  /\ proc[p].at = "done" /\ proc[p].ret
  /\ proc[p].calls # <<>> /\ proc[p].calls[1].op = op

\* C15: the existence check and the act on it are one atomic step per native
\* id: two runs at the same time never both create a native id, and no
\* update or archive is applied on an answer of the existence check that a
\* call of the other run has made out of date in the meantime.
C15_CheckThenActIsAtomic ==
  /\ ~(Applied(1, "create") /\ Applied(2, "create"))
  /\ \A p \in {1, 2} :
        (Applied(p, "update") \/ Applied(p, "archive")) => ~proc[p].stale

\* process 1 called update after the version its existence check reported
\* was archived or deleted by somebody else
UpdateOfVanished ==
  /\ proc[1].at = "done" /\ proc[1].vanished
  /\ proc[1].calls # <<>> /\ proc[1].calls[1].op = "update"

\* C16: update detects a vanished target: when the current version was
\* archived or deleted out of band between the existence check and the
\* update, the update writes no new version, the error is logged, updated
\* is not counted, and no exception ends the run.
C16_UpdateDetectsVanishedTarget ==
  UpdateOfVanished =>
     /\ proc[1].storeSame
     /\ proc[1].logged > 0
     /\ proc[1].counter = "none"
     /\ ~proc[1].raised

\* the same for a target that was archived, not deleted
C16_UpdateOfArchivedIsRefused ==
  (UpdateOfVanished /\ getSystemMetadata(store, proc[1].calls[1].sid) # None) =>
     /\ proc[1].storeSame
     /\ proc[1].logged > 0
     /\ proc[1].counter = "none"
     /\ ~proc[1].raised

\* the step called archive_science_metadata
ArchiveCalled ==
  /\ IsRecordStep
  /\ last.calls # <<>> /\ last.calls[1].op = "archive"

\* C17: archive is idempotent and non-destructive: an accepted archive leaves
\* the version in the store, marked archived, with its content, date and
\* links as they were; archiving an archived version again leaves the store
\* unchanged; a refused archive changes nothing; and no archive call raises
\* an exception to process_record.
C17_ArchiveIdempotentNonDestructive ==
  ArchiveCalled =>
     /\ ~last.raised
     /\ last.calls[1].pid = Get(last.ref).pid
     /\ last.ret => [Get(last.ref) EXCEPT !.archived = TRUE] \in store
     /\ (last.ret /\ Get(last.ref).archived) => (last.storeSame /\ last.logged = 0)
     /\ ~last.ret => last.storeSame

C17_Witness ==
  /\ ArchiveCalled /\ last.ret
  /\ Get(last.ref).archived
  /\ last.storeSame
  /\ runs = 2 /\ archived_count = 1

\* the native ids the records of an arbitrary page can carry: one
PageIds == {StripPrefix(w) : w \in EntryWireIds \ {SENTINEL_WIRE}}

\* C18: within one run create is called at most once per native id, whatever
\* pages the source returns, also when the native id comes in more than one
\* record and an earlier create for it failed.  (All records of Spec that
\* can be created carry the one native id of PageIds, so created_calls
\* counts the create calls of the run for that id.)
C18_CreateOncePerIdPerRun ==
  Cardinality(PageIds) = 1 /\ created_calls <= 1

\* the same for a run in which no create failed
C18_CreateOnceUnlessFailed ==
  (IsRecordStep /\ created_calls >= 2) => (~last.was.applied /\ last.outcome = "no")

\* C19: every run ends by appending exactly one summary line with the five
\* counters, after the last record of the last page: no line is written while
\* the run is at work, a run that is over has written its line (so the log
\* holds one line per run), and the line carries the counters as they are at
\* the end, with no record of the page left unprocessed.
C19_EveryRunWritesOneSummary ==
  /\ pc \in {"loop", "records"} => tracking_log = runs - 1
  /\ RunOver => tracking_log = runs
  /\ last.op = "summary" => (last.before = counters /\ pending = 0)

\* the same for the runs no exception ended
C19_CompletedRunWritesOneSummary ==
  /\ pc \in {"loop", "records"} => tracking_log + 1 <= runs
  /\ pc = "done" => last.op = "summary"
  /\ last.op = "summary" => (last.before = counters /\ pending = 0)
  /\ (pc = "done" /\ ~error_seen) => tracking_log = runs

C22_RunStateIsPerRun ==
  /\ last.op = "start" =>
        (start = 1 /\ rtoken = NoToken /\ CountersAre(<<0, 0, 0, 0, 0>>, "none"))
  /\ (last.op = "fetch" /\ fetches = 1) =>
        last.params = [from |-> Some(last_harvest_time), resumptionToken |-> NoToken]
  /\ last.op = "summary" =>
        /\ fetches >= 1
        /\ created_count + updated_count + archived_count
             + skipped_exists_count + skipped_deleted_count = accounted

\* the same statement for runs that each start in a process of their own,
\* where it holds; a page's records are walked only after a page came back
C22_FreshProcessRunState ==
  /\ C22_RunStateIsPerRun
  /\ (pc = "records" /\ last.op = "fetch") => (pending > 0 /\ last.got = "page")

====
